---- MODULE Spec2Model ----
(***************************************************************************)
(* Model of app.py: the Deezer request gateway make_api_request and the    *)
(* Flask route handlers that call it.                                      *)
(*                                                                         *)
(* Strings the code takes apart or puts together (endpoints, URLs, search   *)
(* queries, path identifiers, the search type) are sequences of Unicode    *)
(* code points: "a/b" is <<97, 47, 98>>.  Strings the code only names      *)
(* (route, template, exception, response body) are plain strings.          *)
(*                                                                         *)
(* A decoded JSON value is a record [t, keys, len, data, dlen]:            *)
(*   t    : "none" (Python None), "dict", "list" or "int"                  *)
(*   keys : the top-level keys of a dict                                   *)
(*   len  : the length of a list, the value of an int                      *)
(*   data : what a dict holds under "data": "absent", "list" or "null"     *)
(*   dlen : the length of the list a dict holds under "data"               *)
(***************************************************************************)
EXTENDS Integers, Sequences, FiniteSets, Bags, TLC

\* inflight : the requests being handled, one thread each, every one of them
\*            waiting inside requests.get: a bag of records [req, calls,
\*            endpoint] (the request, the gateway calls that have returned,
\*            the endpoint of the call that has not)
\* req      : the request answered by the last step, NoRequest when the step
\*            answered none
\* calls    : the gateway calls that request made, each with its upstream
\*            outcome; under SpecGateway and SpecHistory, the direct gateway
\*            calls that have returned, in the order they returned
\* resp     : the response sent by the last step
\* exc      : the exception raised inside the handler that sent it
\* debug    : whether the app runs in debug mode: TRUE when started as a
\*            script (app.run(debug=True)), FALSE when served by a WSGI server
\* endpoint : the endpoint string given to the URL builder
\* url      : the URL built from it
VARIABLES inflight, req, calls, resp, exc, debug, endpoint, url

vars == <<inflight, req, calls, resp, exc, debug, endpoint, url>>

(***************************************************************************)
(* Bounds                                                                  *)
(***************************************************************************)
MaxLen == 3        \* longest endpoint, in characters, given to the URL builder
MaxCalls == 2      \* longest sequence of direct gateway calls
MaxHistory == 3    \* longest sequence of calls whose results are compared
MaxQLen == 1       \* longest search query, in characters ("abc" aside)
MaxRedirects == 1  \* most redirects the upstream answers one call with
MaxInFlight == 2   \* most requests handled at the same time

(***************************************************************************)
(* Strings                                                                 *)
(***************************************************************************)
\* "https://api.deezer.com"
DEEZER_BASE_URL ==
    <<104, 116, 116, 112, 115, 58, 47, 47, 97, 112, 105, 46, 100, 101, 101, 122,
      101, 114, 46, 99, 111, 109>>

\* the string literals of the handlers
\* "chart/0"
S_chart0 == <<99, 104, 97, 114, 116, 47, 48>>

\* "editorial"
S_editorial == <<101, 100, 105, 116, 111, 114, 105, 97, 108>>

\* "search/"
S_search == <<115, 101, 97, 114, 99, 104, 47>>

\* "?q="
S_q == <<63, 113, 61>>

\* "&limit=10"
S_limit10 == <<38, 108, 105, 109, 105, 116, 61, 49, 48>>

\* "track"
S_track_default == <<116, 114, 97, 99, 107>>

\* "user/"
S_user == <<117, 115, 101, 114, 47>>

\* "User "
S_User == <<85, 115, 101, 114, 32>>

\* "track/"
S_track == <<116, 114, 97, 99, 107, 47>>

\* "editorial/"
S_editorial_slash == <<101, 100, 105, 116, 111, 114, 105, 97, 108, 47>>

\* "/selection"
S_selection == <<47, 115, 101, 108, 101, 99, 116, 105, 111, 110>>

\* "album/"
S_album == <<97, 108, 98, 117, 109, 47>>

\* "artist/"
S_artist == <<97, 114, 116, 105, 115, 116, 47>>

\* "/top?limit=10"
S_top == <<47, 116, 111, 112, 63, 108, 105, 109, 105, 116, 61, 49, 48>>

\* "playlist/"
S_playlist == <<112, 108, 97, 121, 108, 105, 115, 116, 47>>

\* "genre"
S_genre == <<103, 101, 110, 114, 101>>

\* "radio"
S_radio == <<114, 97, 100, 105, 111>>

\* "episode/"
S_episode == <<101, 112, 105, 115, 111, 100, 101, 47>>

\* "/"
Slash == 47

\* the characters str.strip() removes when called without arguments: every
\* code point c with chr(c).isspace()
Whitespace ==
    (9..13) \cup (28..32) \cup {133, 160, 5760} \cup (8192..8202)
    \cup {8232, 8233, 8239, 8287, 12288}

RECURSIVE LStripChars(_, _)
LStripChars(s, chars) ==
    IF s # <<>> /\ Head(s) \in chars THEN LStripChars(Tail(s), chars) ELSE s

RECURSIVE RStripChars(_, _)
RStripChars(s, chars) ==
    IF s # <<>> /\ s[Len(s)] \in chars
    THEN RStripChars(SubSeq(s, 1, Len(s) - 1), chars)
    ELSE s

\* str.strip()
strip(s) == RStripChars(LStripChars(s, Whitespace), Whitespace)

\* str.lstrip(chars)
lstrip(s, chars) == LStripChars(s, chars)

\* endpoint.strip().lstrip('/')
CleanEndpoint_OneSlash(e) ==
    LET t == strip(e) IN IF t # <<>> /\ Head(t) = Slash THEN Tail(t) ELSE t

CleanEndpoint(e) == lstrip(strip(e), {Slash})

\* f"{DEEZER_BASE_URL}/{endpoint}"
RequestUrl(e) == DEEZER_BASE_URL \o <<Slash>> \o CleanEndpoint(e)

\* the characters quote never encodes: letters, digits and "_.-~"
AlwaysSafe == (65..90) \cup (97..122) \cup (48..57) \cup {95, 46, 45, 126}

\* the UTF-8 bytes of a code point (surrogates, which cannot be encoded, are
\* not among the inputs)
Utf8(c) ==
    IF c < 128 THEN <<c>>
    ELSE IF c < 2048 THEN <<192 + (c \div 64), 128 + (c % 64)>>
    ELSE IF c < 65536
    THEN <<224 + (c \div 4096), 128 + ((c \div 64) % 64), 128 + (c % 64)>>
    ELSE <<240 + (c \div 262144), 128 + ((c \div 4096) % 64),
           128 + ((c \div 64) % 64), 128 + (c % 64)>>

\* an upper-case hexadecimal digit
HexDigit(n) == IF n < 10 THEN 48 + n ELSE 55 + n

\* "%XX" for one byte
PercentByte(b) == <<37, HexDigit(b \div 16), HexDigit(b % 16)>>

RECURSIVE PercentBytes(_)
PercentBytes(bs) ==
    IF bs = <<>> THEN <<>> ELSE PercentByte(Head(bs)) \o PercentBytes(Tail(bs))

\* requests.utils.quote (urllib.parse.quote, safe='/'), on one character
QuoteChar(c) ==
    IF c \in AlwaysSafe \cup {Slash} THEN <<c>> ELSE PercentBytes(Utf8(c))

RECURSIVE quote(_)
quote(s) == IF s = <<>> THEN <<>> ELSE QuoteChar(Head(s)) \o quote(Tail(s))

(***************************************************************************)
(* JSON values and the upstream                                            *)
(***************************************************************************)
None == [t |-> "none", keys |-> {}, len |-> 0, data |-> "absent", dlen |-> 0]

JDict(keys, data, dlen) ==
    [t |-> "dict", keys |-> keys, len |-> 0, data |-> data, dlen |-> dlen]

JList(n) == [t |-> "list", keys |-> {}, len |-> n, data |-> "absent", dlen |-> 0]

JInt(n) == [t |-> "int", keys |-> {}, len |-> n, data |-> "absent", dlen |-> 0]

\* the response bodies the upstream is given to answer with
Bodies ==
    { "{}",
      "{\"data\":[]}",
      "{\"data\":[1,2]}",
      "{\"data\":null}",
      "{\"title\":\"x\"}",
      "{\"error\":{\"code\":800}}",
      "{\"error\":{},\"data\":[1]}",
      "[]",
      "[1]",
      "null",
      "7",
      "<html>",
      "" }

\* bodies json.loads rejects
Undecodable == {"<html>", ""}

\* response.json() on a decodable body
ResponseJson(body) ==
    CASE body = "{}"                          -> JDict({}, "absent", 0)
      [] body = "{\"data\":[]}"               -> JDict({"data"}, "list", 0)
      [] body = "{\"data\":[1,2]}"            -> JDict({"data"}, "list", 2)
      [] body = "{\"data\":null}"             -> JDict({"data"}, "null", 0)
      [] body = "{\"title\":\"x\"}"           -> JDict({"title"}, "absent", 0)
      [] body = "{\"error\":{\"code\":800}}"  -> JDict({"error"}, "absent", 0)
      [] body = "{\"error\":{},\"data\":[1]}" -> JDict({"error", "data"}, "list", 1)
      [] body = "[]"                          -> JList(0)
      [] body = "[1]"                         -> JList(1)
      [] body = "null"                        -> None
      [] body = "7"                           -> JInt(7)

\* exceptions requests.get raises
TransportErrors == {"Timeout", "ConnectionError", "RequestException", "Exception"}

Statuses == {200, 201, 404}

\* what the upstream does to one requests.get: it answers the first
\* `redirects` GETs with a redirect, which requests follows, and the next GET
\* comes to an exception or to the response requests.get returns
Outcomes ==
    [exc : TransportErrors, status : {0}, body : {""},
     redirects : 0..MaxRedirects]
    \cup [exc : {"none"}, status : Statuses, body : Bodies,
          redirects : 0..MaxRedirects]

(***************************************************************************)
(* make_api_request                                                        *)
(***************************************************************************)
\* the except clauses of make_api_request: the exceptions they absorb
Handled_TimeoutOnly == {"Timeout", "JSONDecodeError"}

Handled ==
    {"Timeout", "ConnectionError", "HTTPError", "RequestException",
     "JSONDecodeError", "Exception"}

\* response.status_code != 200
StatusRejected_From400(status) == status >= 400

StatusRejected(status) == status # 200

\* isinstance(data, dict) and 'error' in data
IsDeezerError_Never(data) == FALSE

IsDeezerError(data) == data.t = "dict" /\ "error" \in data.keys

\* the try block: the exception it raises ("none": it returns), whether
\* response.json() ran, and the value it returns
TryRequest(o) ==
    IF o.exc # "none"
    THEN [raised |-> o.exc, decoded |-> FALSE, value |-> None]
    ELSE IF StatusRejected(o.status)
    THEN [raised |-> "none", decoded |-> FALSE, value |-> None]
    ELSE IF o.body \in Undecodable
    THEN [raised |-> "JSONDecodeError", decoded |-> TRUE, value |-> None]
    ELSE LET data == ResponseJson(o.body) IN
         IF IsDeezerError(data)
         THEN [raised |-> "none", decoded |-> TRUE, value |-> None]
         ELSE [raised |-> "none", decoded |-> TRUE, value |-> data]

\* requests.get follows redirects: having sent `sent` GETs, it sends another
\* when the reply to the last one is a redirect, and stops at the first reply
\* that is not (the redirect limit of requests, 30, is above MaxRedirects)
RECURSIVE FollowRedirects(_, _)
FollowRedirects(o, sent) ==
    IF sent <= o.redirects THEN FollowRedirects(o, sent + 1) ELSE sent

\* the GETs one requests.get(url, timeout=15) sends
GetsIssued_RetryOnFailure(o) ==
    IF o.exc # "none" \/ o.status # 200
    THEN 2 * FollowRedirects(o, 1)
    ELSE FollowRedirects(o, 1)

GetsIssued(o) == FollowRedirects(o, 1)

\* make_api_request(endpoint) when its requests.get comes to o
make_api_request_Cached(e, o) ==
    LET t == TryRequest(o) IN
    [ endpoint |-> e,
      url      |-> RequestUrl(e),
      outcome  |-> o,
      gets     |-> GetsIssued(o),
      decoded  |-> t.decoded,
      raised   |-> IF t.raised \in Handled \cup {"none"} THEN "none" ELSE t.raised,
      result   |-> IF t.raised = "none" /\ t.value # None THEN t.value
                   ELSE IF calls # <<>> THEN calls[Len(calls)].result
                   ELSE None ]

make_api_request(e, o) ==
    LET t == TryRequest(o) IN
    [ endpoint |-> e,
      url      |-> RequestUrl(e),
      outcome  |-> o,
      gets     |-> GetsIssued(o),
      decoded  |-> t.decoded,
      raised   |-> IF t.raised \in Handled \cup {"none"} THEN "none" ELSE t.raised,
      result   |-> IF t.raised = "none" THEN t.value ELSE None ]

(***************************************************************************)
(* Route handlers                                                          *)
(***************************************************************************)
\* a query parameter of the request: present with a value, or absent
Param(v) == [present |-> TRUE, v |-> v]

AbsentQ == [present |-> FALSE, v |-> <<>>]

AbsentType == [present |-> FALSE, v |-> <<>>]

\* request.args.get(name, default)
ArgsGet(arg, default) == IF arg.present THEN arg.v ELSE default

\* truth value of a decoded payload: `if track_data:`
Truthy(v) ==
    \/ v.t = "dict" /\ (v.keys # {})
    \/ v.t = "list" /\ v.len > 0
    \/ v.t = "int" /\ v.len # 0

\* truth value of a string: `if query:`
QueryGiven_Always(query) == TRUE

QueryGiven(query) == query # <<>>

\* len(v.get('data', [])): the exception it raises, "none" when it does not
LenDataRaises(v) ==
    IF v.t # "dict" THEN "AttributeError"
    ELSE IF v.data = "null" THEN "TypeError"
    ELSE "none"

\* the debug block of track_detail
TrackDebugRaises(v) ==
    IF Truthy(v) /\ v.t # "dict" THEN "AttributeError" ELSE "none"

\* the debug block of editorial_list, editorial_detail, genre_list, radio_list
DataDebugRaises(v) == IF Truthy(v) THEN LenDataRaises(v) ELSE "none"

\* the debug block of search
SearchDebugRaises(v) ==
    IF v # None /\ v.t = "dict" /\ "data" \in v.keys
    THEN LenDataRaises(v)
    ELSE "none"

\* a handler that reached its render_template call
Rendered(cs, template, context) ==
    [calls |-> cs, raised |-> "none", caught |-> "none",
     template |-> template, context |-> context]

\* a handler that raised before rendering
Raised(cs, e) ==
    [calls |-> cs, raised |-> e, caught |-> "none",
     template |-> "", context |-> [error |-> e]]

index(o1, o2) ==
    LET chart_data == make_api_request(S_chart0, o1)
        editorial_data == make_api_request(S_editorial, o2)
    IN  Rendered(<<chart_data, editorial_data>>, "index.html",
                 [chart_data |-> chart_data.result,
                  editorial_data |-> editorial_data.result])

\* f"search/{search_type}?q={encoded_query}&limit=10"
SearchEndpoint(search_type, query) ==
    S_search \o search_type \o S_q \o quote(query) \o S_limit10

\* the except branch of search
SearchFallback_Reraise(cs, qArg, typeArg, e) == Raised(cs, e)

SearchFallback(cs, qArg, typeArg, e) ==
    [calls |-> cs, raised |-> "none", caught |-> e,
     template |-> "search.html",
     context |-> [results |-> None,
                  query |-> ArgsGet(qArg, <<>>),
                  search_type |-> ArgsGet(typeArg, S_track_default),
                  error |-> e]]

search(qArg, typeArg, o) ==
    LET query == ArgsGet(qArg, <<>>)
        search_type == ArgsGet(typeArg, S_track_default)
    IN  IF QueryGiven(query)
        THEN LET r == make_api_request(SearchEndpoint(search_type, query), o) IN
             IF SearchDebugRaises(r.result) # "none"
             THEN SearchFallback(<<r>>, qArg, typeArg, SearchDebugRaises(r.result))
             ELSE Rendered(<<r>>, "search.html",
                           [results |-> r.result,
                            query |-> query,
                            search_type |-> search_type])
        ELSE Rendered(<<>>, "search.html",
                      [results |-> None,
                       query |-> query,
                       search_type |-> search_type])

user_detail(user_id, o) ==
    LET user_data == make_api_request(S_user \o user_id, o) IN
    Rendered(<<user_data>>, "detail.html",
             [data |-> user_data.result, title |-> S_User \o user_id,
              type |-> "user"])

track_detail(track_id, o) ==
    LET track_data == make_api_request(S_track \o track_id, o) IN
    IF TrackDebugRaises(track_data.result) # "none"
    THEN Raised(<<track_data>>, TrackDebugRaises(track_data.result))
    ELSE Rendered(<<track_data>>, "detail.html",
                  [data |-> track_data.result, title |-> "Track Details",
                   type |-> "track"])

editorial_list(o) ==
    LET editorial_data == make_api_request(S_editorial, o) IN
    IF DataDebugRaises(editorial_data.result) # "none"
    THEN Raised(<<editorial_data>>, DataDebugRaises(editorial_data.result))
    ELSE Rendered(<<editorial_data>>, "detail.html",
                  [data |-> editorial_data.result, title |-> "Editorial Picks",
                   type |-> "editorial"])

editorial_detail(editorial_id, o) ==
    LET editorial_data ==
            make_api_request(S_editorial_slash \o editorial_id \o S_selection, o)
    IN  IF DataDebugRaises(editorial_data.result) # "none"
        THEN Raised(<<editorial_data>>, DataDebugRaises(editorial_data.result))
        ELSE Rendered(<<editorial_data>>, "detail.html",
                      [data |-> editorial_data.result,
                       title |-> "Editorial Selection",
                       type |-> "editorial_detail",
                       editorial_id |-> editorial_id])

album_detail(album_id, o) ==
    LET album_data == make_api_request(S_album \o album_id, o) IN
    Rendered(<<album_data>>, "detail.html",
             [data |-> album_data.result, title |-> "Album Details",
              type |-> "album"])

artist_detail_StopOnAbsence(artist_id, o1, o2) ==
    LET artist_data == make_api_request(S_artist \o artist_id, o1)
        top_tracks ==
            make_api_request(S_artist \o artist_id \o S_top, o2)
    IN  IF artist_data.result = None
        THEN Rendered(<<artist_data>>, "detail.html",
                      [data |-> None, top_tracks |-> None,
                       title |-> "Artist Details", type |-> "artist"])
        ELSE Rendered(<<artist_data, top_tracks>>, "detail.html",
                      [data |-> artist_data.result,
                       top_tracks |-> top_tracks.result,
                       title |-> "Artist Details",
                       type |-> "artist"])

artist_detail(artist_id, o1, o2) ==
    LET artist_data == make_api_request(S_artist \o artist_id, o1)
        top_tracks ==
            make_api_request(S_artist \o artist_id \o S_top, o2)
    IN  Rendered(<<artist_data, top_tracks>>, "detail.html",
                 [data |-> artist_data.result,
                  top_tracks |-> top_tracks.result,
                  title |-> "Artist Details",
                  type |-> "artist"])

playlist_detail(playlist_id, o) ==
    LET playlist_data == make_api_request(S_playlist \o playlist_id, o) IN
    Rendered(<<playlist_data>>, "detail.html",
             [data |-> playlist_data.result, title |-> "Playlist Details",
              type |-> "playlist"])

genre_list(o) ==
    LET genre_data == make_api_request(S_genre, o) IN
    IF DataDebugRaises(genre_data.result) # "none"
    THEN Raised(<<genre_data>>, DataDebugRaises(genre_data.result))
    ELSE Rendered(<<genre_data>>, "detail.html",
                  [data |-> genre_data.result, title |-> "Music Genres",
                   type |-> "genre"])

radio_list(o) ==
    LET radio_data == make_api_request(S_radio, o) IN
    IF DataDebugRaises(radio_data.result) # "none"
    THEN Raised(<<radio_data>>, DataDebugRaises(radio_data.result))
    ELSE Rendered(<<radio_data>>, "detail.html",
                  [data |-> radio_data.result, title |-> "Radio Stations",
                   type |-> "radio"])

episode_detail(episode_id, o) ==
    LET episode_data == make_api_request(S_episode \o episode_id, o) IN
    Rendered(<<episode_data>>, "detail.html",
             [data |-> episode_data.result, title |-> "Episode Details",
              type |-> "episode"])

\* @app.errorhandler(404)
not_found_error(error) ==
    [status |-> 404, template |-> "error.html", context |-> [error |-> error]]

\* @app.errorhandler(500)
internal_error(error) ==
    [status |-> 500, template |-> "error.html", context |-> [error |-> error]]

\* the exception Flask (1.1 and later) hands to the 500 handler in place of
\* the exception that left the view
InternalServerError(e) ==
    [name |-> "InternalServerError", original_exception |-> e]

\* the Werkzeug debugger's traceback page, which the development server
\* answers with when an exception leaves the application
debugger_page(error) ==
    [status |-> 500, template |-> "werkzeug-debugger", context |-> [error |-> error]]

\* the response to a request whose handler came to h.  An exception that
\* leaves the view function is re-raised by Flask in debug mode and reaches
\* the debugger of the development server; otherwise Flask hands it to the
\* handler registered for 500.
Dispatch(h, dbg) ==
    IF h.raised # "none"
    THEN IF dbg
         THEN debugger_page(h.raised)
         ELSE internal_error(InternalServerError(h.raised))
    ELSE [status |-> 200, template |-> h.template, context |-> h.context]

(***************************************************************************)
(* Inputs                                                                  *)
(***************************************************************************)
\* path identifiers: "42" and "x"
Ids == {<<52, 50>>, <<120>>}

\* the characters of the search queries: "a", " " and "\u00e9"
QueryChars == {97, 32, 233}

\* the search queries: every string of up to MaxQLen characters, and "abc"
Queries == UNION {[1..k -> QueryChars] : k \in 0..MaxQLen} \cup {<<97, 98, 99>>}

\* the search types given: "track" and "artist"
SearchTypes == {<<116, 114, 97, 99, 107>>, <<97, 114, 116, 105, 115, 116>>}

\* the characters of the endpoints given to the URL builder: " ", vertical
\* tab, "/" and "a"
EndpointChars == {32, 11, 47, 97}

Endpoints == UNION {[1..k -> EndpointChars] : k \in 0..MaxLen}

\* the endpoints of the direct gateway calls: "chart/0" and " /genre "
GatewayEndpoints == {<<99, 104, 97, 114, 116, 47, 48>>, <<32, 47, 103, 101, 110, 114, 101, 32>>}

\* the outcomes the route handlers are run against
HandlerOutcomes ==
    { o \in [exc : TransportErrors \cup {"none"}, status : Statuses \cup {0},
             body : Bodies, redirects : {0}] \cap Outcomes :
        \/ o.exc = "Timeout"
        \/ o.status = 404 /\ o.body = "{\"title\":\"x\"}"
        \/ o.status = 200 /\ o.body \in {"{\"data\":[1,2]}", "{\"data\":null}",
                                         "{\"title\":\"x\"}", "[1]",
                                         "<html>", "null",
                                         "{\"error\":{\"code\":800}}"} }

HistoryOutcomes ==
    { o \in Outcomes :
        \/ o.exc = "Timeout"
        \/ o.status = 404 /\ o.body = "{}"
        \/ o.status = 200 /\ o.body \in {"{\"data\":[1,2]}", "[1]", "<html>",
                                         "{\"error\":{\"code\":800}}"} }

NoRequest == [route |-> "none", id |-> <<>>, q |-> AbsentQ, type |-> AbsentType]

NoResponse == [status |-> 0, template |-> "", context |-> [error |-> ""]]

\* the outcome handed to a handler on the path where it makes no call
NoOutcome == [exc |-> "none", status |-> 0, body |-> "", redirects |-> 0]

(***************************************************************************)
(* The web application.  The server gives every request a thread of its    *)
(* own, and a handler blocks inside requests.get until the upstream has    *)
(* answered: a request is handled in as many steps as it makes gateway     *)
(* calls plus one, and steps of other requests come in between.  Each      *)
(* route has an action that takes the request and runs its handler up to   *)
(* the first requests.get, and one action for each requests.get that       *)
(* returns, which runs the handler on to the next requests.get or to its   *)
(* response.                                                               *)
(***************************************************************************)
\* a request on its way through a handler
Request(route, id, qArg, typeArg) ==
    [route |-> route, id |-> id, q |-> qArg, type |-> typeArg]

\* a thread inside requests.get: the request it handles (NoRequest: a direct
\* call of the gateway), the gateway calls that have returned and the
\* endpoint of the call that has not
Waiting(r, cs, e) == [req |-> r, calls |-> cs, endpoint |-> e]

\* the threads of the bag b that handle a request of the route
At(b, route) == {th \in BagToSet(b) : th.req.route = route}

Init ==
    /\ inflight = EmptyBag
    /\ req = NoRequest
    /\ calls = <<>>
    /\ resp = NoResponse
    /\ exc = "none"
    /\ debug \in BOOLEAN
    /\ endpoint = <<>>
    /\ url = <<>>

\* GET /: index runs up to the requests.get for chart/0
Index ==
    /\ BagCardinality(inflight) < MaxInFlight
    /\ inflight' = inflight (+) SetToBag({
               Waiting(Request("index", <<>>, AbsentQ, AbsentType), <<>>,
                       S_chart0)})
    /\ req' = NoRequest
    /\ calls' = <<>>
    /\ exc' = "none"
    /\ resp' = NoResponse
    /\ UNCHANGED <<debug, endpoint, url>>

\* the requests.get for chart/0 returns or raises: index goes on to the
\* requests.get for editorial
IndexChartReturns ==
    /\ \E th \in At(inflight, "index"), o \in HandlerOutcomes :
           /\ th.calls = <<>>
           /\ inflight' = (inflight (-) SetToBag({th})) (+) SetToBag({
                  Waiting(th.req, <<make_api_request(S_chart0, o)>>,
                          S_editorial)})
    /\ req' = NoRequest
    /\ calls' = <<>>
    /\ exc' = "none"
    /\ resp' = NoResponse
    /\ UNCHANGED <<debug, endpoint, url>>

\* the requests.get for editorial returns or raises: index renders
IndexEditorialReturns ==
    \E th \in At(inflight, "index"), o \in HandlerOutcomes :
        LET h == index(th.calls[1].outcome, o) IN
        /\ Len(th.calls) = 1
        /\ inflight' = inflight (-) SetToBag({th})
        /\ req' = th.req
        /\ calls' = h.calls
        /\ exc' = (IF h.raised # "none" THEN h.raised ELSE h.caught)
        /\ resp' = Dispatch(h, debug)
        /\ UNCHANGED <<debug, endpoint, url>>

\* GET /search: without a query search renders at once; with one it runs up
\* to its requests.get
Search ==
    /\ BagCardinality(inflight) < MaxInFlight
    /\ \E qArg \in {AbsentQ} \cup {Param(q) : q \in Queries},
          typeArg \in {AbsentType} \cup {Param(t) : t \in SearchTypes} :
           IF QueryGiven(ArgsGet(qArg, <<>>))
           THEN /\ inflight' = inflight (+) SetToBag({
                       Waiting(Request("search", <<>>, qArg, typeArg), <<>>,
                               SearchEndpoint(ArgsGet(typeArg, S_track_default),
                                              ArgsGet(qArg, <<>>)))})
                /\ req' = NoRequest
                /\ calls' = <<>>
                /\ exc' = "none"
                /\ resp' = NoResponse
           ELSE LET h == search(qArg, typeArg, NoOutcome) IN
                /\ inflight' = inflight
                /\ req' = Request("search", <<>>, qArg, typeArg)
                /\ calls' = h.calls
                /\ exc' = (IF h.raised # "none" THEN h.raised ELSE h.caught)
                /\ resp' = Dispatch(h, debug)
    /\ UNCHANGED <<debug, endpoint, url>>

\* the requests.get of search returns or raises: search runs its debug block
\* and renders
SearchReturns ==
    \E th \in At(inflight, "search"), o \in HandlerOutcomes :
        LET h == search(th.req.q, th.req.type, o) IN
        /\ inflight' = inflight (-) SetToBag({th})
        /\ req' = th.req
        /\ calls' = h.calls
        /\ exc' = (IF h.raised # "none" THEN h.raised ELSE h.caught)
        /\ resp' = Dispatch(h, debug)
        /\ UNCHANGED <<debug, endpoint, url>>

\* GET /user/<user_id>: user_detail runs up to its requests.get
UserDetail ==
    /\ BagCardinality(inflight) < MaxInFlight
    /\ \E id \in Ids :
           inflight' = inflight (+) SetToBag({
               Waiting(Request("user", id, AbsentQ, AbsentType), <<>>,
                       S_user \o id)})
    /\ req' = NoRequest
    /\ calls' = <<>>
    /\ exc' = "none"
    /\ resp' = NoResponse
    /\ UNCHANGED <<debug, endpoint, url>>

\* the requests.get of user_detail returns or raises: user_detail renders
UserDetailReturns ==
    \E th \in At(inflight, "user"), o \in HandlerOutcomes :
        LET h == user_detail(th.req.id, o) IN
        /\ inflight' = inflight (-) SetToBag({th})
        /\ req' = th.req
        /\ calls' = h.calls
        /\ exc' = (IF h.raised # "none" THEN h.raised ELSE h.caught)
        /\ resp' = Dispatch(h, debug)
        /\ UNCHANGED <<debug, endpoint, url>>

\* GET /track/<track_id>: track_detail runs up to its requests.get
TrackDetail ==
    /\ BagCardinality(inflight) < MaxInFlight
    /\ \E id \in Ids :
           inflight' = inflight (+) SetToBag({
               Waiting(Request("track", id, AbsentQ, AbsentType), <<>>,
                       S_track \o id)})
    /\ req' = NoRequest
    /\ calls' = <<>>
    /\ exc' = "none"
    /\ resp' = NoResponse
    /\ UNCHANGED <<debug, endpoint, url>>

\* the requests.get of track_detail returns or raises: track_detail runs its debug
\* block and renders
TrackDetailReturns ==
    \E th \in At(inflight, "track"), o \in HandlerOutcomes :
        LET h == track_detail(th.req.id, o) IN
        /\ inflight' = inflight (-) SetToBag({th})
        /\ req' = th.req
        /\ calls' = h.calls
        /\ exc' = (IF h.raised # "none" THEN h.raised ELSE h.caught)
        /\ resp' = Dispatch(h, debug)
        /\ UNCHANGED <<debug, endpoint, url>>

\* GET /editorial: editorial_list runs up to its requests.get
EditorialList ==
    /\ BagCardinality(inflight) < MaxInFlight
    /\ inflight' = inflight (+) SetToBag({
               Waiting(Request("editorial", <<>>, AbsentQ, AbsentType), <<>>,
                       S_editorial)})
    /\ req' = NoRequest
    /\ calls' = <<>>
    /\ exc' = "none"
    /\ resp' = NoResponse
    /\ UNCHANGED <<debug, endpoint, url>>

\* the requests.get of editorial_list returns or raises: editorial_list runs its debug
\* block and renders
EditorialListReturns ==
    \E th \in At(inflight, "editorial"), o \in HandlerOutcomes :
        LET h == editorial_list(o) IN
        /\ inflight' = inflight (-) SetToBag({th})
        /\ req' = th.req
        /\ calls' = h.calls
        /\ exc' = (IF h.raised # "none" THEN h.raised ELSE h.caught)
        /\ resp' = Dispatch(h, debug)
        /\ UNCHANGED <<debug, endpoint, url>>

\* GET /editorial/<editorial_id>: editorial_detail runs up to its requests.get
EditorialDetail ==
    /\ BagCardinality(inflight) < MaxInFlight
    /\ \E id \in Ids :
           inflight' = inflight (+) SetToBag({
               Waiting(Request("editorial_detail", id, AbsentQ, AbsentType), <<>>,
                       S_editorial_slash \o id \o S_selection)})
    /\ req' = NoRequest
    /\ calls' = <<>>
    /\ exc' = "none"
    /\ resp' = NoResponse
    /\ UNCHANGED <<debug, endpoint, url>>

\* the requests.get of editorial_detail returns or raises: editorial_detail runs its debug
\* block and renders
EditorialDetailReturns ==
    \E th \in At(inflight, "editorial_detail"), o \in HandlerOutcomes :
        LET h == editorial_detail(th.req.id, o) IN
        /\ inflight' = inflight (-) SetToBag({th})
        /\ req' = th.req
        /\ calls' = h.calls
        /\ exc' = (IF h.raised # "none" THEN h.raised ELSE h.caught)
        /\ resp' = Dispatch(h, debug)
        /\ UNCHANGED <<debug, endpoint, url>>

\* GET /album/<album_id>: album_detail runs up to its requests.get
AlbumDetail ==
    /\ BagCardinality(inflight) < MaxInFlight
    /\ \E id \in Ids :
           inflight' = inflight (+) SetToBag({
               Waiting(Request("album", id, AbsentQ, AbsentType), <<>>,
                       S_album \o id)})
    /\ req' = NoRequest
    /\ calls' = <<>>
    /\ exc' = "none"
    /\ resp' = NoResponse
    /\ UNCHANGED <<debug, endpoint, url>>

\* the requests.get of album_detail returns or raises: album_detail renders
AlbumDetailReturns ==
    \E th \in At(inflight, "album"), o \in HandlerOutcomes :
        LET h == album_detail(th.req.id, o) IN
        /\ inflight' = inflight (-) SetToBag({th})
        /\ req' = th.req
        /\ calls' = h.calls
        /\ exc' = (IF h.raised # "none" THEN h.raised ELSE h.caught)
        /\ resp' = Dispatch(h, debug)
        /\ UNCHANGED <<debug, endpoint, url>>

\* GET /artist/<artist_id>: artist_detail runs up to the requests.get for
\* artist/{id}
ArtistDetail ==
    /\ BagCardinality(inflight) < MaxInFlight
    /\ \E id \in Ids :
           inflight' = inflight (+) SetToBag({
               Waiting(Request("artist", id, AbsentQ, AbsentType), <<>>,
                       S_artist \o id)})
    /\ req' = NoRequest
    /\ calls' = <<>>
    /\ exc' = "none"
    /\ resp' = NoResponse
    /\ UNCHANGED <<debug, endpoint, url>>

\* the requests.get for artist/{id} returns or raises: artist_detail goes on
\* to the requests.get for artist/{id}/top?limit=10
ArtistDetailReturns ==
    /\ \E th \in At(inflight, "artist"), o \in HandlerOutcomes :
           /\ th.calls = <<>>
           /\ inflight' = (inflight (-) SetToBag({th})) (+) SetToBag({
                  Waiting(th.req, <<make_api_request(S_artist \o th.req.id, o)>>,
                          S_artist \o th.req.id \o S_top)})
    /\ req' = NoRequest
    /\ calls' = <<>>
    /\ exc' = "none"
    /\ resp' = NoResponse
    /\ UNCHANGED <<debug, endpoint, url>>

\* the requests.get for artist/{id}/top?limit=10 returns or raises:
\* artist_detail renders
ArtistTopReturns ==
    \E th \in At(inflight, "artist"), o \in HandlerOutcomes :
        LET h == artist_detail(th.req.id, th.calls[1].outcome, o) IN
        /\ Len(th.calls) = 1
        /\ inflight' = inflight (-) SetToBag({th})
        /\ req' = th.req
        /\ calls' = h.calls
        /\ exc' = (IF h.raised # "none" THEN h.raised ELSE h.caught)
        /\ resp' = Dispatch(h, debug)
        /\ UNCHANGED <<debug, endpoint, url>>

\* GET /playlist/<playlist_id>: playlist_detail runs up to its requests.get
PlaylistDetail ==
    /\ BagCardinality(inflight) < MaxInFlight
    /\ \E id \in Ids :
           inflight' = inflight (+) SetToBag({
               Waiting(Request("playlist", id, AbsentQ, AbsentType), <<>>,
                       S_playlist \o id)})
    /\ req' = NoRequest
    /\ calls' = <<>>
    /\ exc' = "none"
    /\ resp' = NoResponse
    /\ UNCHANGED <<debug, endpoint, url>>

\* the requests.get of playlist_detail returns or raises: playlist_detail renders
PlaylistDetailReturns ==
    \E th \in At(inflight, "playlist"), o \in HandlerOutcomes :
        LET h == playlist_detail(th.req.id, o) IN
        /\ inflight' = inflight (-) SetToBag({th})
        /\ req' = th.req
        /\ calls' = h.calls
        /\ exc' = (IF h.raised # "none" THEN h.raised ELSE h.caught)
        /\ resp' = Dispatch(h, debug)
        /\ UNCHANGED <<debug, endpoint, url>>

\* GET /genre: genre_list runs up to its requests.get
GenreList ==
    /\ BagCardinality(inflight) < MaxInFlight
    /\ inflight' = inflight (+) SetToBag({
               Waiting(Request("genre", <<>>, AbsentQ, AbsentType), <<>>,
                       S_genre)})
    /\ req' = NoRequest
    /\ calls' = <<>>
    /\ exc' = "none"
    /\ resp' = NoResponse
    /\ UNCHANGED <<debug, endpoint, url>>

\* the requests.get of genre_list returns or raises: genre_list runs its debug
\* block and renders
GenreListReturns ==
    \E th \in At(inflight, "genre"), o \in HandlerOutcomes :
        LET h == genre_list(o) IN
        /\ inflight' = inflight (-) SetToBag({th})
        /\ req' = th.req
        /\ calls' = h.calls
        /\ exc' = (IF h.raised # "none" THEN h.raised ELSE h.caught)
        /\ resp' = Dispatch(h, debug)
        /\ UNCHANGED <<debug, endpoint, url>>

\* GET /radio: radio_list runs up to its requests.get
RadioList ==
    /\ BagCardinality(inflight) < MaxInFlight
    /\ inflight' = inflight (+) SetToBag({
               Waiting(Request("radio", <<>>, AbsentQ, AbsentType), <<>>,
                       S_radio)})
    /\ req' = NoRequest
    /\ calls' = <<>>
    /\ exc' = "none"
    /\ resp' = NoResponse
    /\ UNCHANGED <<debug, endpoint, url>>

\* the requests.get of radio_list returns or raises: radio_list runs its debug
\* block and renders
RadioListReturns ==
    \E th \in At(inflight, "radio"), o \in HandlerOutcomes :
        LET h == radio_list(o) IN
        /\ inflight' = inflight (-) SetToBag({th})
        /\ req' = th.req
        /\ calls' = h.calls
        /\ exc' = (IF h.raised # "none" THEN h.raised ELSE h.caught)
        /\ resp' = Dispatch(h, debug)
        /\ UNCHANGED <<debug, endpoint, url>>

\* GET /episode/<episode_id>: episode_detail runs up to its requests.get
EpisodeDetail ==
    /\ BagCardinality(inflight) < MaxInFlight
    /\ \E id \in Ids :
           inflight' = inflight (+) SetToBag({
               Waiting(Request("episode", id, AbsentQ, AbsentType), <<>>,
                       S_episode \o id)})
    /\ req' = NoRequest
    /\ calls' = <<>>
    /\ exc' = "none"
    /\ resp' = NoResponse
    /\ UNCHANGED <<debug, endpoint, url>>

\* the requests.get of episode_detail returns or raises: episode_detail renders
EpisodeDetailReturns ==
    \E th \in At(inflight, "episode"), o \in HandlerOutcomes :
        LET h == episode_detail(th.req.id, o) IN
        /\ inflight' = inflight (-) SetToBag({th})
        /\ req' = th.req
        /\ calls' = h.calls
        /\ exc' = (IF h.raised # "none" THEN h.raised ELSE h.caught)
        /\ resp' = Dispatch(h, debug)
        /\ UNCHANGED <<debug, endpoint, url>>

\* a request whose path matches no route
NotFound ==
    /\ BagCardinality(inflight) < MaxInFlight
    /\ inflight' = inflight
    /\ req' = Request("unmatched", <<>>, AbsentQ, AbsentType)
    /\ calls' = <<>>
    /\ exc' = "NotFound"
    /\ resp' = not_found_error("NotFound")
    /\ UNCHANGED <<debug, endpoint, url>>

Next ==
    \/ Index
    \/ IndexChartReturns
    \/ IndexEditorialReturns
    \/ Search
    \/ SearchReturns
    \/ UserDetail
    \/ UserDetailReturns
    \/ TrackDetail
    \/ TrackDetailReturns
    \/ EditorialList
    \/ EditorialListReturns
    \/ EditorialDetail
    \/ EditorialDetailReturns
    \/ AlbumDetail
    \/ AlbumDetailReturns
    \/ ArtistDetail
    \/ ArtistDetailReturns
    \/ ArtistTopReturns
    \/ PlaylistDetail
    \/ PlaylistDetailReturns
    \/ GenreList
    \/ GenreListReturns
    \/ RadioList
    \/ RadioListReturns
    \/ EpisodeDetail
    \/ EpisodeDetailReturns
    \/ NotFound

Spec == Init /\ [][Next]_vars

(***************************************************************************)
(* The gateway on its own: direct calls, from up to MaxInFlight threads    *)
(***************************************************************************)
\* the module imported and make_api_request called directly
InitGateway ==
    /\ inflight = EmptyBag
    /\ req = NoRequest
    /\ calls = <<>>
    /\ resp = NoResponse
    /\ exc = "none"
    /\ debug = FALSE
    /\ endpoint = <<>>
    /\ url = <<>>

\* make_api_request(e) is called and runs up to its requests.get
GatewayCall ==
    /\ BagCardinality(inflight) < MaxInFlight
    /\ Len(calls) + BagCardinality(inflight) < MaxCalls
    /\ \E e \in GatewayEndpoints :
           inflight' = inflight (+) SetToBag({Waiting(NoRequest, <<>>, e)})
    /\ UNCHANGED <<req, calls, resp, exc, debug, endpoint, url>>

\* its requests.get returns or raises, and make_api_request returns
GatewayReturns ==
    /\ \E th \in At(inflight, "none"), o \in Outcomes :
           /\ inflight' = inflight (-) SetToBag({th})
           /\ calls' = Append(calls, make_api_request(th.endpoint, o))
    /\ UNCHANGED <<req, resp, exc, debug, endpoint, url>>

NextGateway ==
    \/ GatewayCall
    \/ GatewayReturns

SpecGateway == InitGateway /\ [][NextGateway]_vars

HistoryCall ==
    /\ BagCardinality(inflight) < MaxInFlight
    /\ Len(calls) + BagCardinality(inflight) < MaxHistory
    /\ \E e \in GatewayEndpoints :
           inflight' = inflight (+) SetToBag({Waiting(NoRequest, <<>>, e)})
    /\ UNCHANGED <<req, calls, resp, exc, debug, endpoint, url>>

HistoryReturns ==
    /\ \E th \in At(inflight, "none"), o \in HistoryOutcomes :
           /\ inflight' = inflight (-) SetToBag({th})
           /\ calls' = Append(calls, make_api_request(th.endpoint, o))
    /\ UNCHANGED <<req, resp, exc, debug, endpoint, url>>

NextHistory ==
    \/ HistoryCall
    \/ HistoryReturns

SpecHistory == InitGateway /\ [][NextHistory]_vars

(***************************************************************************)
(* The URL builder on its own                                              *)
(***************************************************************************)
InitUrl ==
    /\ inflight = EmptyBag
    /\ req = NoRequest
    /\ calls = <<>>
    /\ resp = NoResponse
    /\ exc = "none"
    /\ debug = FALSE
    /\ endpoint \in Endpoints
    /\ url = <<>>

BuildUrl ==
    /\ url = <<>>
    /\ url' = RequestUrl(endpoint)
    /\ UNCHANGED <<inflight, req, calls, resp, exc, debug, endpoint>>

SpecUrl == InitUrl /\ [][BuildUrl]_vars

(***************************************************************************)
(* Properties of make_api_request                                          *)
(***************************************************************************)
HasErrorKey(v) == v.t = "dict" /\ "error" \in v.keys

\* C1: every gateway call, whatever its endpoint and whatever the upstream
\* did, raises nothing to its caller and returns either None or a decoded
\* payload without a top-level "error" key.
C1_NeverRaisesNeverErrorPayload ==
    \A i \in 1..Len(calls) :
        /\ calls[i].raised = "none"
        /\ calls[i].result = None \/ ~HasErrorKey(calls[i].result)

C1_Witness ==
    /\ Len(calls) = 2
    /\ calls[1].outcome.exc = "ConnectionError"
    /\ calls[1].result = None
    /\ calls[2].outcome.status = 200
    /\ calls[2].outcome.body = "{\"error\":{},\"data\":[1]}"
    /\ calls[2].result = None

\* C2: a response whose status is not exactly 200 yields None and its body
\* is never decoded, even when the body is well-formed JSON without an error.
C2_Non200IsAbsent ==
    \A i \in 1..Len(calls) :
        (calls[i].outcome.exc = "none" /\ calls[i].outcome.status # 200)
            => (calls[i].result = None /\ ~calls[i].decoded)

C2_Witness ==
    \E i \in 1..Len(calls) :
        /\ calls[i].outcome.status = 201
        /\ calls[i].outcome.body = "{\"data\":[1,2]}"
        /\ calls[i].result = None
        /\ ~calls[i].decoded

\* C3: on status 200 with a decodable body, the call returns None when the
\* decoded value is a mapping with a top-level "error" key, and the decoded
\* value itself otherwise.
C3_ErrorKeyOrPassThrough ==
    \A i \in 1..Len(calls) :
        (/\ calls[i].outcome.exc = "none"
         /\ calls[i].outcome.status = 200
         /\ calls[i].outcome.body \notin Undecodable)
            => calls[i].result =
                   IF HasErrorKey(ResponseJson(calls[i].outcome.body))
                   THEN None
                   ELSE ResponseJson(calls[i].outcome.body)

C3_Witness ==
    /\ Len(calls) = 2
    /\ calls[1].outcome.status = 200
    /\ calls[1].outcome.body = "{\"error\":{\"code\":800}}"
    /\ calls[1].result = None
    /\ calls[2].outcome.status = 200
    /\ calls[2].outcome.body = "[1]"
    /\ calls[2].result = JList(1)

PreTrimmed(e) ==
    LET t == strip(e) IN IF t # <<>> /\ Head(t) = Slash THEN Tail(t) ELSE t

\* C4 as stated: the URL requested for e is the one requested for the
\* pre-trimmed e (one leading "/" removed), and it is the base address, a
\* single "/" and the pre-trimmed e.
C4_AsStated ==
    url # <<>> =>
        /\ url = RequestUrl(PreTrimmed(endpoint))
        /\ url = DEEZER_BASE_URL \o <<Slash>> \o PreTrimmed(endpoint)

\* n is e without its surrounding whitespace and without any leading "/"
IsNormalizedOf(n, e) ==
    \E i \in 1..(Len(e) + 1), j \in 0..Len(e), k \in 0..Len(e) :
        /\ \A m \in 1..(i - 1) : e[m] \in Whitespace
        /\ \A m \in (j + 1)..Len(e) : e[m] \in Whitespace
        /\ i <= j => (e[i] \notin Whitespace /\ e[j] \notin Whitespace)
        /\ i > j => (i = j + 1 /\ k = 0)
        /\ i + k <= j + 1
        /\ \A m \in i..(i + k - 1) : e[m] = Slash
        /\ i + k <= j => e[i + k] # Slash
        /\ n = SubSeq(e, i + k, j)

\* C4, amended: the URL requested for e is the base address, a single "/"
\* and N(e), where N(e) is e without its surrounding whitespace and without
\* any of its leading "/"; N(e) is requested under the same URL unless it
\* begins with whitespace.
C4_AllLeadingSlashes ==
    url # <<>> =>
        \E n \in Endpoints :
            /\ IsNormalizedOf(n, endpoint)
            /\ url = DEEZER_BASE_URL \o <<Slash>> \o n
            /\ (n = <<>> \/ n[1] \notin Whitespace) => RequestUrl(n) = url

C4_Witness ==
    /\ endpoint = <<32, 47, 97>>
    /\ url = DEEZER_BASE_URL \o <<47, 97>>

(***************************************************************************)
(* Properties of the route handlers                                        *)
(***************************************************************************)
\* C5: a search request whose q is absent or empty makes no gateway call and
\* renders results = None with the empty query and the search type received
\* ("track" when absent).
C5_EmptyQueryNoCall ==
    (req.route = "search" /\ ArgsGet(req.q, <<>>) = <<>>) =>
        /\ calls = <<>>
        /\ resp.status = 200
        /\ resp.template = "search.html"
        /\ DOMAIN resp.context = {"results", "query", "search_type"}
        /\ resp.context.results = None
        /\ resp.context.query = <<>>
        /\ resp.context.search_type =
               (IF req.type.present THEN req.type.v ELSE <<116, 114, 97, 99, 107>>)

C5_Witness ==
    /\ req.route = "search"
    /\ req.q = Param(<<>>)
    /\ req.type = AbsentType
    /\ calls = <<>>
    /\ resp.context.results = None
    /\ resp.context.search_type = <<116, 114, 97, 99, 107>>

\* C6 as stated: a search request with a non-empty q and no type makes
\* exactly one gateway call, to search/track?q=<quoted q>&limit=10, and the
\* render context carries the value that call returned as results.
C6_AsStated ==
    (/\ req.route = "search"
     /\ req.q.present
     /\ req.q.v # <<>>
     /\ ~req.type.present) =>
        /\ Len(calls) = 1
        /\ calls[1].endpoint =
               S_search \o S_track_default \o S_q \o quote(req.q.v) \o S_limit10
        /\ req.q.v = <<97, 98, 99>> =>
               \* "search/track?q=abc&limit=10"
               calls[1].endpoint =
                   <<115, 101, 97, 114, 99, 104, 47, 116, 114, 97, 99, 107, 63, 113, 61, 97, 98, 99,
                     38, 108, 105, 109, 105, 116, 61, 49, 48>>
        /\ resp.context.search_type = <<116, 114, 97, 99, 107>>
        /\ resp.context.results = calls[1].result

\* C7: an artist request makes exactly two gateway calls, artist/{id} and
\* then artist/{id}/top?limit=10, the second whatever the first returned,
\* and renders the first result as data and the second as top_tracks.
C7_ArtistTwoCalls ==
    req.route = "artist" =>
        /\ Len(calls) = 2
        /\ calls[1].endpoint = S_artist \o req.id
        /\ calls[2].endpoint = S_artist \o req.id \o S_top
        /\ resp.status = 200
        /\ resp.context.data = calls[1].result
        /\ resp.context.top_tracks = calls[2].result

C7_Witness ==
    /\ req.route = "artist"
    /\ Len(calls) = 2
    /\ calls[1].result = None
    /\ calls[2].result # None
    /\ resp.context.data = None
    /\ resp.context.top_tracks = calls[2].result

\* C8 as stated: an exception raised inside any handler, search included, is
\* rendered as an error page with status 404 or 500, 500 for anything other
\* than not-found.
C8_AsStated ==
    exc # "none" =>
        /\ resp.template = "error.html"
        /\ resp.status = (IF exc = "NotFound" THEN 404 ELSE 500)

\* C8, amended: an exception raised inside search is caught by search itself
\* and rendered as the search page with results = None and the error
\* message, status 200; a request that matches no route is rendered as the
\* error page with status 404; an exception that leaves any other handler is
\* answered with status 500, by the error page when the app is served
\* without debug mode and by the debugger's page when it is started with
\* app.run(debug=True).
C8_ErrorPageExceptSearch ==
    exc # "none" =>
        IF req.route = "search"
        THEN /\ resp.status = 200
             /\ resp.template = "search.html"
             /\ resp.context.results = None
             /\ resp.context.error = exc
        ELSE IF exc = "NotFound"
        THEN /\ resp.status = 404
             /\ resp.template = "error.html"
        ELSE /\ resp.status = 500
             /\ resp.template =
                    (IF debug THEN "werkzeug-debugger" ELSE "error.html")

C8_Witness ==
    /\ req.route = "search"
    /\ debug
    /\ exc = "TypeError"
    /\ Len(calls) = 1
    /\ calls[1].result = JDict({"data"}, "null", 0)
    /\ resp.status = 200
    /\ resp.template = "search.html"

\* the payload keys of the render context of each route, in call order
PayloadKeys(route) ==
    CASE route = "index"  -> <<"chart_data", "editorial_data">>
      [] route = "search" -> <<"results">>
      [] route = "artist" -> <<"data", "top_tracks">>
      [] OTHER            -> <<"data">>

\* C10 as stated: whatever the gateway returns to a handler, the handler
\* completes normally, with status 200, and renders its template with every
\* gateway result passed through unchanged; its logging raises nothing.
C10_AsStated ==
    req.route \notin {"none", "unmatched"} =>
        /\ exc = "none"
        /\ resp.status = 200
        /\ \A i \in 1..Len(calls) :
               resp.context[PayloadKeys(req.route)[i]] = calls[i].result

====
